---- MODULE Spec2Model ----
(***************************************************************************)
(* spacymoji: the Emoji pipeline component (src/spacymoji/__init__.py).    *)
(*                                                                         *)
(* A text is a sequence of code points, each written as a one-letter       *)
(* string.  The code points of the model:                                  *)
(*   "h"  a letter            " "  a space                                 *)
(*   "W"  WOMAN               "D"  DARK SKIN TONE modifier                 *)
(*   "Z"  ZERO WIDTH JOINER   "L"  LAPTOP                                  *)
(*   "S"  REGIONAL INDICATOR letter S (two of them are a flag)             *)
(*   "H"  HEAVY BLACK HEART   "M"  MAN     "G"  GIRL     "B"  BOY           *)
(*   "V"  VARIATION SELECTOR-16                                            *)
(* The tokenizer splits off the pictographs and regional indicators, which *)
(* are in its class of icons; "D", "Z", "V" are not, and run together with  *)
(* their neighbours as letters do.                                          *)
(* A token is [text, idx, ws]: its text, the offset of its first code      *)
(* point in the document text, and whether a space follows it.  Spans are  *)
(* pairs <<start, end>> of token positions, 0-based and half-open, as in   *)
(* the host framework.                                                     *)
(***************************************************************************)
EXTENDS Integers, Sequences, FiniteSets, TLC

VARIABLES comps, registry, tokens, user_data, err, orig, matches, merged, ncalls, caller

\* comps      the Emoji objects, in the order of their construction
\* registry   the extensions registered on Doc, Span and Token
\* tokens     the document's tokens; user_data its stored extension values
\* err        the error the last operation raised, "none" if it returned
\* orig, matches, merged, ncalls, caller record the calls on the document:
\* its tokens as it was made, the spans the last call's matcher reported, the
\* spans it handed to the retokenizer, the number of calls and the last caller.
vars == <<comps, registry, tokens, user_data, err, orig, matches, merged, ncalls, caller>>

------------------------------------------------------------------------------
(* Bounds *)

MaxTextLen == 4

MaxCalls == 1

MaxComponents == 2

------------------------------------------------------------------------------
(* Texts *)

Letters == {"h"}

Symbols == {"W", "D", "Z", "L", "S"}

Alphabet == Letters \cup Symbols \cup {" "}

\* The code points of the tokenizer's class of icons (prefix, suffix and infix
\* of its rules): pictographs and regional indicators, not modifiers or joiners.
ICONS == {"W", "L", "S", "H", "M", "G", "B"}

\* Python's None, a value that is no text.
None == <<"None">>

RECURSIVE Concat(_)
Concat(ss) == IF ss = <<>> THEN <<>> ELSE Head(ss) \o Concat(Tail(ss))

\* str.replace(old, new) for a one-character old and a new of length 0 or 1.
RECURSIVE StrReplace(_, _, _)
StrReplace(s, old, new) ==
    IF s = <<>> THEN <<>>
    ELSE (IF Head(s) = old THEN new ELSE <<Head(s)>>) \o StrReplace(Tail(s), old, new)

------------------------------------------------------------------------------
(* The emoji table *)

\* A sample of the emoji package's table: emoji -> shortcode, the shortcodes
\* abbreviated (":w_d:" for ":woman_dark_skin_tone:").
UNICODE_EMOJI ==
    (<<"W">> :> <<":", "w", ":">>) @@
    (<<"D">> :> <<":", "d", "_", "t", ":">>) @@
    (<<"L">> :> <<":", "l", ":">>) @@
    (<<"W", "D">> :> <<":", "w", "_", "d", ":">>) @@
    (<<"W", "Z", "L">> :> <<":", "w", "_", "l", ":">>) @@
    (<<"W", "D", "Z", "L">> :> <<":", "w", "_", "l", "_", "d", ":">>) @@
    (<<"S">> :> <<":", "r", "_", "s", ":">>) @@
    (<<"S", " ", "S">> :> <<":", "S", "_", "S", ":">>) @@
    (<<"H">> :> <<":", "h", ":">>) @@
    (<<"M">> :> <<":", "m", ":">>) @@
    (<<"G">> :> <<":", "g", ":">>) @@
    (<<"B">> :> <<":", "b", ":">>) @@
    (<<"W", "Z", "H", "V", "Z", "M">> :> <<":", "c", "_", "w", "_", "m", ":">>) @@
    (<<"W", "Z", "G">> :> <<":", "f", "_", "w", "_", "g", ":">>) @@
    (<<"W", "Z", "G", "Z", "B">> :> <<":", "f", "_", "w", "_", "g", "_", "b", ":">>) @@
    (<<"M", "Z", "W", "Z", "G">> :> <<":", "f", "_", "m", "_", "w", "_", "g", ":">>) @@
    (<<"M", "Z", "W", "Z", "G", "Z", "B">> :> <<":", "f", "_", "m", "_", "w", "_", "g", "_", "b", ":">>)

EMOJI ==
    [k \in {StrReplace(e, " ", <<>>) : e \in DOMAIN UNICODE_EMOJI} |->
        UNICODE_EMOJI[CHOOSE e \in DOMAIN UNICODE_EMOJI : StrReplace(e, " ", <<>>) = k]]

DEFAULT_ATTRS == <<"has_emoji", "is_emoji", "emoji_desc", "emoji">>

CUSTOM_ATTRS == <<"contains_emoji", "equals_emoji", "emoji_details", "all_emoji">>

MIXED_ATTRS == <<"contains_emoji", "is_emoji", "emoji_desc", "emoji">>

AttrChoices == {DEFAULT_ATTRS, CUSTOM_ATTRS, MIXED_ATTRS}

Names == UNION {{a[i] : i \in 1..4} : a \in AttrChoices}

EmptyLookup == [k \in {} |-> <<>>]

CustomLookup ==
    (<<"W">> :> <<"m", "u", "m">>) @@
    (<<"W", "Z", "L">> :> <<"D", ".", "B", "o", "w", "i", "e">>) @@
    (<<"Z">> :> <<"j", "o", "i", "n">>)

Lookups == {EmptyLookup, CustomLookup}

------------------------------------------------------------------------------
(* The host framework: tokenizer, phrase matcher, filter_spans, retokenizer *)

\* A text the tokenizer model covers: spaces are single, between tokens.
Normal(text) ==
    \A i \in 1..Len(text) :
        text[i] = " " => (i > 1 /\ i < Len(text) /\ text[i - 1] # " ")

RECURSIVE Tok(_, _, _)
Tok(text, i, acc) ==
    IF i > Len(text) THEN acc
    ELSE LET c == text[i]
             n == Len(acc)
         IN  IF c = " "
             THEN Tok(text, i + 1, [acc EXCEPT ![n].ws = TRUE])
             ELSE IF c \notin ICONS /\ i > 1 /\ text[i - 1] \notin ICONS \cup {" "}
             THEN Tok(text, i + 1, [acc EXCEPT ![n].text = Append(@, c)])
             ELSE Tok(text, i + 1, Append(acc, [text |-> <<c>>, idx |-> i - 1, ws |-> FALSE]))

\* nlp.tokenizer: every icon is a token of its own, a run of other code points
\* (letters, modifiers, joiners) is one token, a space ends a token and is
\* recorded on it.
Tokenize(text) == Tok(text, 1, <<>>)

Orths(toks) == [k \in 1..Len(toks) |-> toks[k].text]

\* The patterns every component adds to its matcher.
emoji_patterns == {Orths(Tokenize(k)) : k \in DOMAIN EMOJI}

\* PhraseMatcher.__call__(doc, as_spans=True): every span of the document
\* whose tokens' texts are those of a pattern.
Matcher(toks) ==
    {sp \in (0..Len(toks)) \X (0..Len(toks)) :
        /\ sp[1] < sp[2]
        /\ [k \in 1..(sp[2] - sp[1]) |-> toks[sp[1] + k].text] \in emoji_patterns}

SpanLen(sp) == sp[2] - sp[1]

\* Sorting by start alone, shorter first among equal starts.
SortsBefore_start(a, b) ==
    \/ a[1] < b[1]
    \/ a[1] = b[1] /\ a[2] <= b[2]

\* filter_spans sorts by (length, -start), reversed: longer first, then earlier.
SortsBefore(a, b) ==
    \/ SpanLen(a) > SpanLen(b)
    \/ SpanLen(a) = SpanLen(b) /\ a[1] <= b[1]

RECURSIVE FilterLoop(_, _, _)
FilterLoop(rest, result, seen_tokens) ==
    IF rest = {} THEN result
    ELSE LET span == CHOOSE a \in rest : \A b \in rest : SortsBefore(a, b)
         IN  IF span[1] \notin seen_tokens /\ (span[2] - 1) \notin seen_tokens
             THEN FilterLoop(rest \ {span}, result \cup {span},
                             seen_tokens \cup (span[1]..(span[2] - 1)))
             ELSE FilterLoop(rest \ {span}, result, seen_tokens)

\* No filtering at all.
filter_spans_none(spans) == spans

filter_spans(spans) == FilterLoop(spans, {}, {})

Overlap(a, b) == a[1] < b[2] /\ b[1] < a[2]

\* The token a merge makes of the span: the span's text, spaces between its
\* tokens included, at the offset of its first token.
MergedToken(toks, sp) ==
    [text |-> Concat([k \in 1..SpanLen(sp) |->
                        toks[sp[1] + k].text \o
                        (IF toks[sp[1] + k].ws /\ k < SpanLen(sp) THEN <<" ">> ELSE <<>>)]),
     idx  |-> toks[sp[1] + 1].idx,
     ws   |-> toks[sp[2]].ws]

RECURSIVE Retok(_, _, _)
Retok(toks, spans, p) ==
    IF p >= Len(toks) THEN <<>>
    ELSE IF \E sp \in spans : sp[1] = p
    THEN LET sp == CHOOSE s \in spans : s[1] = p
         IN  <<MergedToken(toks, sp)>> \o Retok(toks, spans, sp[2])
    ELSE <<toks[p + 1]>> \o Retok(toks, spans, p + 1)

\* The spans as the list the loop of __call__ goes through: by start.
RECURSIVE Ordered(_)
Ordered(spans) ==
    IF spans = {} THEN <<>>
    ELSE LET first == CHOOSE a \in spans :
                          \A b \in spans : a[1] < b[1] \/ (a[1] = b[1] /\ a[2] <= b[2])
         IN  <<first>> \o Ordered(spans \ {first})

\* retokenizer.merge(span), span by span: a span with a token of a span queued
\* before it raises E102, which ends the loop; the merges queued so far stay.
RECURSIVE MergeLoop(_, _, _)
MergeLoop(list, queued, tokens_to_merge) ==
    IF list = <<>> THEN [merges |-> queued, err |-> "none"]
    ELSE LET span == Head(list)
             toks == span[1]..(span[2] - 1)
         IN  IF toks \cap tokens_to_merge # {}
             THEN [merges |-> queued, err |-> "E102"]
             ELSE MergeLoop(Tail(list), queued \cup {span}, tokens_to_merge \cup toks)

\* with doc.retokenize(): the loop over the spans, then the queued merges are
\* applied as the block is left, also when the loop raised.
Retokenize(toks, spans) ==
    LET r == MergeLoop(Ordered(spans), {}, {})
    IN  [tokens |-> Retok(toks, r.merges, 0), err |-> r.err]

------------------------------------------------------------------------------
(* The extension registry of the host types *)

Types == {"Doc", "Span", "Token"}

NoExt == [kind |-> "none", comp |-> 0, fn |-> "none"]

DefaultExt == [kind |-> "default", comp |-> 0, fn |-> "none"]

GetterExt(c, fn) == [kind |-> "getter", comp |-> c, fn |-> fn]

EmptyRegistry == [k \in Types \X Names |-> NoExt]

\* force ignored: an extension that exists is always refused.
set_extension_strict(r, type, name, ext, force) ==
    IF r.err # "none" THEN r
    ELSE IF r.reg[<<type, name>>].kind # "none"
    THEN [r EXCEPT !.err = "E090"]
    ELSE [r EXCEPT !.reg[<<type, name>>] = ext]

\* force silences the error but keeps the extension that exists.
set_extension_keep(r, type, name, ext, force) ==
    IF r.err # "none" THEN r
    ELSE IF r.reg[<<type, name>>].kind # "none"
    THEN (IF force THEN r ELSE [r EXCEPT !.err = "E090"])
    ELSE [r EXCEPT !.reg[<<type, name>>] = ext]

\* cls.set_extension(name, ..., force=force) on the state r = [reg, err].
set_extension(r, type, name, ext, force) ==
    IF r.err # "none" THEN r
    ELSE IF r.reg[<<type, name>>].kind # "none" /\ ~force
    THEN [r EXCEPT !.err = "E090"]
    ELSE [r EXCEPT !.reg[<<type, name>>] = ext]

Configs ==
    [merge_spans : BOOLEAN, lookup : Lookups, attrs : AttrChoices, force_extension : BOOLEAN]

\* Emoji.__init__ as the c-th component: the object and the registry after it.
\* ok and forced record how the construction went; the object has no such fields.
EmojiInit(reg, c, cfg) ==
    LET has   == cfg.attrs[1]
        is    == cfg.attrs[2]
        desc  == cfg.attrs[3]
        emo   == cfg.attrs[4]
        f     == cfg.force_extension
        r0    == [reg |-> reg, err |-> "none"]
        r1    == set_extension(r0, "Doc", has, GetterExt(c, "has_emoji"), f)
        r2    == set_extension(r1, "Doc", emo, GetterExt(c, "iter_emoji"), f)
        r3    == set_extension(r2, "Span", has, GetterExt(c, "has_emoji"), f)
        r4    == set_extension(r3, "Span", emo, GetterExt(c, "iter_emoji"), f)
        r5    == set_extension(r4, "Token", is, DefaultExt, f)
        r6    == set_extension(r5, "Token", desc, GetterExt(c, "get_emoji_desc"), f)
    IN  [self |-> [attrs |-> cfg.attrs, merge_spans |-> cfg.merge_spans,
                   lookup |-> cfg.lookup, ok |-> r6.err = "none", forced |-> f],
         reg  |-> r6.reg,
         err  |-> r6.err]

------------------------------------------------------------------------------
(* The getters *)

\* What reading an extension that is not registered on the type raises.
AttributeError == "E046"

\* token._.get(name) of a flag extension: the stored value, False by default;
\* AttributeError when Token has no extension of that name.
TokenFlag(name, t) ==
    IF registry[<<"Token", name>>].kind = "none" THEN AttributeError
    ELSE <<name, t.idx>> \in user_data

\* The built-in table consulted before the lookup table.
get_emoji_desc_table_first(c, t) ==
    IF t.text \in DOMAIN EMOJI
    THEN StrReplace(StrReplace(EMOJI[t.text], "_", <<" ">>), ":", <<>>)
    ELSE IF t.text \in DOMAIN comps[c].lookup THEN comps[c].lookup[t.text]
    ELSE None

\* The built-in table never consulted.
get_emoji_desc_lookup_only(c, t) ==
    IF t.text \in DOMAIN comps[c].lookup THEN comps[c].lookup[t.text]
    ELSE None

get_emoji_desc(c, t) ==
    IF t.text \in DOMAIN comps[c].lookup THEN comps[c].lookup[t.text]
    ELSE IF t.text \in DOMAIN EMOJI
    THEN StrReplace(StrReplace(EMOJI[t.text], "_", <<" ">>), ":", <<>>)
    ELSE None

\* token._.get(name) of a getter extension: the getter of the component that
\* registered it; AttributeError when Token has no extension of that name.
TokenDesc(name, t) ==
    IF registry[<<"Token", name>>].kind = "none" THEN AttributeError
    ELSE get_emoji_desc(registry[<<"Token", name>>].comp, t)

RECURSIVE AnyFlag(_, _)
AnyFlag(c, toks) ==
    IF toks = <<>> THEN FALSE
    ELSE IF TokenFlag(comps[c].attrs[2], Head(toks)) THEN TRUE
    ELSE AnyFlag(c, Tail(toks))

\* all() in place of any().
has_emoji_all(c, toks) ==
    \A k \in 1..Len(toks) : TokenFlag(comps[c].attrs[2], toks[k])

has_emoji(c, toks) == AnyFlag(c, toks)

RECURSIVE Enumerate(_, _, _)
Enumerate(c, toks, i) ==
    IF i >= Len(toks) THEN <<>>
    ELSE LET t == toks[i + 1]
         IN  (IF TokenFlag(comps[c].attrs[2], t)
              THEN <<<<t.text, i, TokenDesc(comps[c].attrs[3], t)>>>>
              ELSE <<>>) \o Enumerate(c, toks, i + 1)

\* The token's offset in the document in place of its position in the container.
iter_emoji_offset(c, toks) ==
    LET triples == Enumerate(c, toks, 0)
    IN  [k \in 1..Len(triples) |->
            <<triples[k][1], toks[triples[k][2] + 1].idx, triples[k][3]>>]

iter_emoji(c, toks) == Enumerate(c, toks, 0)

\* doc[i:j]
Slice(toks, i, j) == [k \in 1..(j - i) |-> toks[i + k]]

\* obj._.<name> for a container of the host type: the getter registered on
\* that type under the name, AttributeError when the type has none.  Doc and
\* Span keep separate tables.
ContainerGet(type, name, toks) ==
    LET ext == registry[<<type, name>>]
    IN  CASE ext.fn = "has_emoji" -> has_emoji(ext.comp, toks)
          [] ext.fn = "iter_emoji" -> iter_emoji(ext.comp, toks)
          [] OTHER -> AttributeError

\* doc._.<name>
DocGet(name, toks) == ContainerGet("Doc", name, toks)

\* span._.<name>
SpanGet(name, toks) == ContainerGet("Span", name, toks)

------------------------------------------------------------------------------
(* Operations *)

\* The texts a pipeline is given, up to maxlen code points.
Texts(maxlen) ==
    {text \in UNION {[1..n -> Alphabet] : n \in 0..maxlen} : Normal(text)}

\* nlp.make_doc(text) hands the component a fresh document: no call was made
\* on it and nothing is stored in its user_data.
NewDoc(text) ==
    /\ tokens' = Tokenize(text)
    /\ orig' = tokens'
    /\ user_data' = {}
    /\ matches' = {}
    /\ merged' = {}
    /\ ncalls' = 0
    /\ caller' = 0
    /\ UNCHANGED <<comps, registry, err>>

\* Flagging only the first token of every span.
SpanTokens_first(spans) == {sp[1] : sp \in spans}

\* The positions of the tokens of the spans: the tokens the two loops of
\* __call__ visit.
SpanTokens(spans) == UNION {sp[1]..(sp[2] - 1) : sp \in spans}

\* Emoji.__call__ of component c on the document.
Call(c) ==
    /\ c \in 1..Len(comps)
    /\ comps[c].ok
    /\ ncalls < MaxCalls
    /\ LET self   == comps[c]
           spans  == Matcher(tokens)
           picked == {sp \in filter_spans(spans) : SpanLen(sp) > 1}
       IN  /\ matches' = spans
           /\ user_data' = user_data \cup
                  {<<self.attrs[2], tokens[k + 1].idx>> : k \in SpanTokens(spans)}
           /\ IF self.merge_spans
              THEN /\ merged' = picked
                   /\ tokens' = Retokenize(tokens, picked).tokens
                   /\ err' = Retokenize(tokens, picked).err
              ELSE /\ merged' = {}
                   /\ tokens' = tokens
                   /\ err' = "none"
    /\ ncalls' = ncalls + 1
    /\ caller' = c
    /\ UNCHANGED <<comps, registry, orig>>

\* Emoji(nlp, ...) with the configuration cfg.
Construct(cfg) ==
    /\ Len(comps) < MaxComponents
    /\ LET r == EmojiInit(registry, Len(comps) + 1, cfg)
       IN  /\ comps' = Append(comps, r.self)
           /\ registry' = r.reg
           /\ err' = r.err
    /\ UNCHANGED <<tokens, user_data, orig, matches, merged, ncalls, caller>>

FreshDoc(text) ==
    /\ tokens = Tokenize(text)
    /\ orig = tokens
    /\ user_data = {}
    /\ matches = {}
    /\ merged = {}
    /\ ncalls = 0
    /\ caller = 0

\* The configurations of a pipeline's component; force_extension is left at
\* its default.
PipelineConfigs ==
    {cfg \in Configs : cfg.force_extension /\ cfg.attrs = DEFAULT_ATTRS}

\* Texts of emoji sequences longer than the bound: a couple, a family, and a
\* couple whose last member is the first of a family.
LongTexts ==
    {<<"W", "Z", "H", "V", "Z", "M">>,
     <<"M", "Z", "W", "Z", "G", "Z", "B">>,
     <<"W", "Z", "H", "V", "Z", "M", "Z", "W", "Z", "G", "Z", "B">>}

\* One pipeline: one component was constructed and is given one document.
Init ==
    \E cfg \in PipelineConfigs : \E text \in Texts(MaxTextLen) \cup LongTexts :
        LET r == EmojiInit(EmptyRegistry, 1, cfg)
        IN  /\ comps = <<r.self>>
            /\ registry = r.reg
            /\ err = r.err
            /\ FreshDoc(text)

\* The pipeline invokes its component once per document.
Process == ncalls = 0 /\ Call(1)

Next == Process

Spec == Init /\ [][Next]_vars

\* Several components on the shared registry, and documents of a few texts.
SampleTexts ==
    {<<"h", " ", "W">>, <<"W", "Z", "L">>}

InitReg ==
    /\ comps = <<>>
    /\ registry = EmptyRegistry
    /\ err = "none"
    /\ FreshDoc(<<>>)

NextReg ==
    \/ \E cfg \in Configs : Construct(cfg)
    \/ \E text \in SampleTexts : NewDoc(text)
    \/ \E c \in 1..Len(comps) : Call(c)

SpecReg == InitReg /\ [][NextReg]_vars

------------------------------------------------------------------------------
(* Properties of one pipeline (Spec) *)

\* The component of the pipeline and the names of its attributes.
IsEmojiName == comps[1].attrs[2]

DescName == comps[1].attrs[3]

Flagged(t) == TokenFlag(IsEmojiName, t)

\* The positions (1-based) of the original tokens a token of the document covers.
Covered(t) ==
    {p \in 1..Len(orig) : orig[p].idx >= t.idx /\ orig[p].idx < t.idx + Len(t.text)}

\* The subsequence of s at the positions in keep.
RECURSIVE Pick(_, _, _)
Pick(s, keep, p) ==
    IF p > Len(s) THEN <<>>
    ELSE (IF p \in keep THEN <<s[p]>> ELSE <<>>) \o Pick(s, keep, p + 1)

\* The token of the document that starts where the span started.
TokenAt(sp) == CHOOSE q \in 1..Len(tokens) : tokens[q].idx = orig[sp[1] + 1].idx

\* C1: after the first call on a document, an original token position is
\* flagged is_emoji exactly when it lies inside a span the matcher reported
\* (merged or not, kept by the overlap filter or not), and every token of the
\* resulting document carries the flag of the positions it covers.
C1_FlagIffInMatchedSpan ==
    ncalls = 1 =>
        /\ \A p \in 1..Len(orig) :
              Flagged(orig[p]) <=> (\E sp \in matches : sp[1] < p /\ p <= sp[2])
        /\ \A q \in 1..Len(tokens) : \A p \in Covered(tokens[q]) :
              Flagged(tokens[q]) <=> Flagged(orig[p])
        /\ (matches = {} => \A q \in 1..Len(tokens) : ~Flagged(tokens[q]))

\* A merging call that left a match out of the merge: flagged and unflagged
\* tokens, a merged token, and a flagged token of a discarded match.
C1_Witness ==
    /\ ncalls = 1
    /\ comps[1].merge_spans
    /\ Len(tokens) < Len(orig)
    /\ \E q \in 1..Len(tokens) : ~Flagged(tokens[q])
    /\ \E sp \in matches : SpanLen(sp) > 1 /\ sp \notin merged
    /\ \E q \in 1..Len(tokens) : Flagged(tokens[q]) /\ Len(tokens[q].text) > 1

\* C2: with merge_spans, every multi-token match that survives the overlap
\* filter becomes one flagged token whose text is the concatenation of the
\* texts of the tokens it covered, the token count drops by the sum of
\* (length - 1) over the merged spans, and the other tokens keep their text
\* and order.
C2_MergedTokenIsConcatenation ==
    (ncalls = 1 /\ comps[1].merge_spans) =>
        /\ Len(orig) - Len(tokens) = Cardinality(SpanTokens(merged)) - Cardinality(merged)
        /\ \A sp \in merged :
              /\ \E q \in 1..Len(tokens) : tokens[q].idx = orig[sp[1] + 1].idx
              /\ tokens[TokenAt(sp)].text = Concat(Orths(Slice(orig, sp[1], sp[2])))
              /\ Flagged(tokens[TokenAt(sp)])
        /\ Pick(Orths(orig), {p \in 1..Len(orig) : (p - 1) \notin SpanTokens(merged)}, 1)
             = Pick(Orths(tokens),
                    {q \in 1..Len(tokens) :
                        \A sp \in merged : tokens[q].idx # orig[sp[1] + 1].idx}, 1)

\* C3 as claimed: the merged spans are those of the rule that takes the
\* candidates by start position (those of one start in any order), skips a
\* candidate that starts before the end of the last merged span and merges
\* every other multi-token candidate.  StartOrderLoop gives the results of the
\* rule, one for every order that goes by start position.
RECURSIVE StartOrderLoop(_, _, _)
StartOrderLoop(rest, result, last_end) ==
    IF rest = {} THEN {result}
    ELSE LET first == {a \in rest : \A b \in rest : a[1] <= b[1]}
         IN  UNION {IF span[1] < last_end \/ SpanLen(span) <= 1
                    THEN StartOrderLoop(rest \ {span}, result, last_end)
                    ELSE StartOrderLoop(rest \ {span}, result \cup {span}, span[2])
                    : span \in first}

C3_StartOrderRule ==
    (ncalls = 1 /\ comps[1].merge_spans) => merged \in StartOrderLoop(matches, {}, 0)

\* C3 amended: the merged spans are the multi-token spans of the rule that
\* takes the candidates longest first (of equal length, the earlier first) and
\* skips a candidate exactly when it shares a token with a span already kept.
RECURSIVE LongestFirstLoop(_, _)
LongestFirstLoop(rest, kept) ==
    IF rest = {} THEN kept
    ELSE LET best == {a \in rest : \A b \in rest :
                         SpanLen(a) > SpanLen(b) \/ (SpanLen(a) = SpanLen(b) /\ a[1] <= b[1])}
             span == CHOOSE a \in best : TRUE
         IN  IF \E k \in kept : Overlap(k, span)
             THEN LongestFirstLoop(rest \ {span}, kept)
             ELSE LongestFirstLoop(rest \ {span}, kept \cup {span})

C3_LongestFirstRule ==
    (ncalls = 1 /\ comps[1].merge_spans) =>
        merged = {sp \in LongestFirstLoop(matches, {}) : SpanLen(sp) > 1}

\* A longer match that starts inside a shorter multi-token match was merged,
\* the shorter one, which starts first, was not.
C3_Witness ==
    /\ ncalls = 1
    /\ comps[1].merge_spans
    /\ \E a \in matches : \E b \in merged :
          /\ a[1] < b[1]
          /\ b[1] < a[2]
          /\ SpanLen(a) > 1
          /\ SpanLen(a) < SpanLen(b)
          /\ a \notin merged

\* The name without its colons, a space for every underscore.
NameWithoutColons(name) ==
    LET at == {i \in 1..Len(name) : name[i] # ":"}
        nth(k) == CHOOSE i \in at : Cardinality({j \in at : j < i}) = k - 1
    IN  [k \in 1..Cardinality(at) |->
            IF name[nth(k)] = "_" THEN " " ELSE name[nth(k)]]

\* C4: for every token of a processed document, before and after merging,
\* get_emoji_desc gives the lookup table's value for a text that is a key
\* of the lookup table (also when it is an emoji of the built-in table),
\* otherwise the built-in name without its colons and with a space for every
\* underscore, otherwise None; the token's emoji_desc attribute is that value.
C4_DescByLookupThenTable ==
    ncalls >= 1 => \A t \in {tokens[q] : q \in 1..Len(tokens)} \cup {orig[p] : p \in 1..Len(orig)} :
        \A desc \in {get_emoji_desc(1, t)} :
            /\ t.text \in DOMAIN comps[1].lookup => desc = comps[1].lookup[t.text]
            /\ (t.text \notin DOMAIN comps[1].lookup /\ t.text \in DOMAIN EMOJI) =>
                  desc = NameWithoutColons(EMOJI[t.text])
            /\ (t.text \notin DOMAIN comps[1].lookup /\ t.text \notin DOMAIN EMOJI) =>
                  desc = None
            /\ TokenDesc(DescName, t) = desc

\* A document with a token in both tables, one in the built-in table alone
\* whose name has an underscore, and one in neither.
C4_Witness ==
    /\ ncalls >= 1
    /\ \E q \in 1..Len(tokens) :
          /\ tokens[q].text \in DOMAIN comps[1].lookup
          /\ tokens[q].text \in DOMAIN EMOJI
          /\ TokenDesc(DescName, tokens[q]) = comps[1].lookup[tokens[q].text]
    /\ \E q \in 1..Len(tokens) :
          /\ tokens[q].text \notin DOMAIN comps[1].lookup
          /\ tokens[q].text \in DOMAIN EMOJI
          /\ \E i \in 1..Len(EMOJI[tokens[q].text]) : EMOJI[tokens[q].text][i] = "_"
    /\ \E q \in 1..Len(tokens) : TokenDesc(DescName, tokens[q]) = None

\* C5: once the document was processed, the emoji attribute of the document
\* and of every span of it lists one (text, index, description) triple per
\* flagged token of the container, in token order, the index counted from the
\* start of the container.
C5_OneTriplePerFlaggedToken ==
    ncalls >= 1 => \A i \in 0..Len(tokens) : \A j \in i..Len(tokens) :
        \A lst \in {SpanGet(comps[1].attrs[4], Slice(tokens, i, j))} \cup
                    (IF i = 0 /\ j = Len(tokens)
                     THEN {DocGet(comps[1].attrs[4], tokens)} ELSE {}) :
            /\ Len(lst) = Cardinality({k \in (i + 1)..j : Flagged(tokens[k])})
            /\ \A n \in 1..Len(lst) :
                  /\ lst[n][2] \in 0..(j - i - 1)
                  /\ Flagged(tokens[i + lst[n][2] + 1])
                  /\ lst[n][1] = tokens[i + lst[n][2] + 1].text
                  /\ lst[n][3] = TokenDesc(DescName, tokens[i + lst[n][2] + 1])
            /\ \A n \in 1..(Len(lst) - 1) : lst[n][2] < lst[n + 1][2]

\* A span that starts after the first token and holds two flagged tokens
\* around an unflagged one.
C5_Witness ==
    /\ ncalls >= 1
    /\ Len(tokens) >= 4
    /\ LET lst == SpanGet(comps[1].attrs[4], Slice(tokens, 1, Len(tokens)))
       IN  /\ Len(lst) = 2
           /\ lst[1][2] = 0
           /\ lst[2][2] = 2

\* C6: once the document was processed, has_emoji of the document and of
\* every span of it (the empty span too) is true exactly when one of its
\* tokens is flagged, which is exactly when its emoji list is not empty; a
\* span with has_emoji makes the document have it.
C6_HasEmojiIffSomeFlagged ==
    ncalls >= 1 => \A i \in 0..Len(tokens) : \A j \in i..Len(tokens) :
        \A has \in {SpanGet(comps[1].attrs[1], Slice(tokens, i, j))} \cup
                    (IF i = 0 /\ j = Len(tokens)
                     THEN {DocGet(comps[1].attrs[1], tokens)} ELSE {}) :
            /\ has <=> (\E k \in (i + 1)..j : Flagged(tokens[k]))
            /\ has <=> (SpanGet(comps[1].attrs[4], Slice(tokens, i, j)) # <<>>)
            /\ (i = 0 /\ j = Len(tokens)) => (has <=> (DocGet(comps[1].attrs[4], tokens) # <<>>))
            /\ has => DocGet(comps[1].attrs[1], tokens)

\* A processed document with an emoji, with a non-empty span without one.
C6_Witness ==
    /\ ncalls >= 1
    /\ DocGet(comps[1].attrs[1], tokens)
    /\ \E i \in 0..Len(tokens) : \E j \in (i + 1)..Len(tokens) :
          ~SpanGet(comps[1].attrs[1], Slice(tokens, i, j))
    /\ \E i \in 1..Len(tokens) : \E j \in (i + 1)..Len(tokens) :
          SpanGet(comps[1].attrs[1], Slice(tokens, i, j))

\* C8: the spans handed to the retokenizer are pairwise disjoint and each is
\* longer than one token, so the retokenizer refuses none.
C8_MergedSpansDisjoint ==
    /\ \A a \in merged : SpanLen(a) > 1
    /\ \A a, b \in merged : a # b => ~Overlap(a, b)
    /\ err # "E102"

\* Two flags were merged whose inner tokens form a third match, next to a
\* single-token match.
C8_Witness ==
    /\ ncalls = 1
    /\ Cardinality(merged) >= 1
    /\ \E a \in merged : \E b \in matches : a # b /\ SpanLen(b) > 1 /\ Overlap(a, b) /\ a[1] < b[1]
    /\ \E c \in matches : SpanLen(c) = 1

\* C9 as claimed: every flagged token has a description.
C9_FlaggedHasDesc ==
    ncalls >= 1 =>
        \A q \in 1..Len(tokens) :
            Flagged(tokens[q]) => TokenDesc(DescName, tokens[q]) # None

\* C9 amended: a token that is a match by itself is flagged and has a
\* description; a flagged token has a description exactly when its text is a
\* key of the lookup table or of the built-in table, so a flagged token whose
\* text is a key of neither has the description None; and the emoji list has
\* the triple of every flagged token with that description, None included.
C9_MatchTokenHasDesc ==
    ncalls = 1 =>
        /\ \A sp \in matches : SpanLen(sp) = 1 =>
              /\ Flagged(orig[sp[2]])
              /\ TokenDesc(DescName, orig[sp[2]]) # None
        /\ \A lst \in {DocGet(comps[1].attrs[4], tokens)} :
              \A q \in 1..Len(tokens) : Flagged(tokens[q]) =>
                  \A desc \in {TokenDesc(DescName, tokens[q])} :
                      /\ tokens[q].text \notin (DOMAIN EMOJI \cup DOMAIN comps[1].lookup)
                            => desc = None
                      /\ tokens[q].text \in (DOMAIN EMOJI \cup DOMAIN comps[1].lookup)
                            => desc # None
                      /\ \E k \in 1..Len(lst) : lst[k] = <<tokens[q].text, q - 1, desc>>

\* With merging, a multi-token match discarded by the overlap filter: one of
\* its tokens, in no merged span, is flagged, is a key of neither table and
\* has the description None, which its triple carries; another token is a
\* match by itself and has a description.
C9_Witness ==
    /\ ncalls = 1
    /\ comps[1].merge_spans
    /\ merged # {}
    /\ \E sp \in matches : \E p \in (sp[1] + 1)..sp[2] : \E q \in 1..Len(tokens) :
          /\ SpanLen(sp) > 1
          /\ sp \notin merged
          /\ \A m \in merged : ~(m[1] < p /\ p <= m[2])
          /\ tokens[q] = orig[p]
          /\ Flagged(tokens[q])
          /\ tokens[q].text \notin (DOMAIN EMOJI \cup DOMAIN comps[1].lookup)
          /\ TokenDesc(DescName, tokens[q]) = None
          /\ \E k \in 1..Len(DocGet(comps[1].attrs[4], tokens)) :
                DocGet(comps[1].attrs[4], tokens)[k] = <<tokens[q].text, q - 1, None>>
    /\ \E s1 \in matches :
          /\ SpanLen(s1) = 1
          /\ TokenDesc(DescName, orig[s1[2]]) # None

------------------------------------------------------------------------------
(* Properties of the shared registry (SpecReg) *)

\* One of the component's names is registered on the type it is set on.
AnyRegistered(reg, attrs) ==
    \/ reg[<<"Doc", attrs[1]>>].kind # "none"
    \/ reg[<<"Doc", attrs[4]>>].kind # "none"
    \/ reg[<<"Span", attrs[1]>>].kind # "none"
    \/ reg[<<"Span", attrs[4]>>].kind # "none"
    \/ reg[<<"Token", attrs[2]>>].kind # "none"
    \/ reg[<<"Token", attrs[3]>>].kind # "none"

\* C7: a construction fails, with the host's error for an extension that
\* exists, exactly when force_extension is off and one of its names is already
\* registered on the type it is set on; with force_extension on it succeeds;
\* no call on a document raises an error.
C7_FailsIffRegisteredAndNotForced ==
    [][/\ Len(comps') = Len(comps) + 1 =>
            LET new == comps'[Len(comps')]
            IN  /\ err' \in {"none", "E090"}
                /\ new.ok <=> err' = "none"
                /\ ~new.ok <=> (~new.forced /\ AnyRegistered(registry, new.attrs))
       /\ ncalls' = ncalls + 1 => err' = "none"]_vars

\* A construction failed on names an earlier component registered.
C7_Witness ==
    /\ Len(comps) = 2
    /\ comps[1].ok
    /\ ~comps[2].ok
    /\ ~comps[2].forced
    /\ comps[2].attrs = comps[1].attrs
    /\ err = "E090"

\* C10: after constructions with force_extension on that all use the same
\* names, the registered getters are those of the component constructed last,
\* for every document: emoji_desc is computed with its lookup table, also for
\* a document an earlier component processed.
C10_LastComponentAnswers ==
    (/\ Len(comps) >= 1
     /\ \A c \in 1..Len(comps) : comps[c].forced /\ comps[c].attrs = comps[1].attrs) =>
        LET last == Len(comps)
            a    == comps[1].attrs
        IN  /\ registry[<<"Doc", a[1]>>] = GetterExt(last, "has_emoji")
            /\ registry[<<"Span", a[1]>>] = GetterExt(last, "has_emoji")
            /\ registry[<<"Doc", a[4]>>] = GetterExt(last, "iter_emoji")
            /\ registry[<<"Span", a[4]>>] = GetterExt(last, "iter_emoji")
            /\ registry[<<"Token", a[3]>>] = GetterExt(last, "get_emoji_desc")
            /\ \A q \in 1..Len(tokens) :
                  /\ TokenDesc(a[3], tokens[q]) = get_emoji_desc(last, tokens[q])
                  /\ tokens[q].text \in DOMAIN comps[last].lookup =>
                        TokenDesc(a[3], tokens[q]) = comps[last].lookup[tokens[q].text]
                  /\ (tokens[q].text \notin DOMAIN comps[last].lookup
                        /\ tokens[q].text \in DOMAIN EMOJI) =>
                        TokenDesc(a[3], tokens[q]) = NameWithoutColons(EMOJI[tokens[q].text])
            /\ DocGet(a[4], tokens) = iter_emoji(last, tokens)
            /\ DocGet(a[1], tokens) = has_emoji(last, tokens)
            /\ \A i \in 0..Len(tokens) : \A j \in i..Len(tokens) :
                  /\ SpanGet(a[4], Slice(tokens, i, j)) = iter_emoji(last, Slice(tokens, i, j))
                  /\ SpanGet(a[1], Slice(tokens, i, j)) = has_emoji(last, Slice(tokens, i, j))

\* A document processed by a component with a lookup table, read after a
\* component with another lookup table was constructed under the same names:
\* the description is not the one of the component that processed it.
C10_Witness ==
    /\ Len(comps) = 2
    /\ comps[1].forced /\ comps[2].forced
    /\ comps[1].attrs = comps[2].attrs
    /\ comps[1].lookup # comps[2].lookup
    /\ caller = 1
    /\ \E q \in 1..Len(tokens) :
          /\ TokenFlag(comps[1].attrs[2], tokens[q])
          /\ TokenDesc(comps[1].attrs[3], tokens[q]) # get_emoji_desc(1, tokens[q])

====
